---- MODULE Spec2Model ----
(***************************************************************************)
(* mc-playtime-calc: playtime from minecraft logs (src/mc-playtime-calc.c) *)
(*                                                                         *)
(* Three specifications over one set of variables:                         *)
(*   FileSpec  one call of parseFile on one byte stream, one parseLine     *)
(*             invocation per step (the variables of the directory level   *)
(*             stay at their initial values);                              *)
(*   Spec      the whole tool on a small file system: main, autoParse,     *)
(*             parseDotMinecraftDirectory (one entry of versions per step) *)
(*             and parseDirectory, parseFile applied as a whole to a file; *)
(*   PairSpec  the same tool run several times on the same tree.           *)
(***************************************************************************)
EXTENDS Integers, Sequences, FiniteSets, TLC

(***************************************************************************)
(* Bytes.  A byte is a one-character string; CR and LF are the two line    *)
(* terminators, EOF is what gzgetc returns at end of stream or on error.   *)
(***************************************************************************)
CR == "CR"
LF == "LF"
EOF == "EOF"
Terminators == {CR, LF}
Digits == {"0", "1", "2", "3", "4", "5", "6", "7", "8", "9"}

DigitVal(ch) ==
    CASE ch = "0" -> 0 [] ch = "1" -> 1 [] ch = "2" -> 2 [] ch = "3" -> 3
      [] ch = "4" -> 4 [] ch = "5" -> 5 [] ch = "6" -> 6 [] ch = "7" -> 7
      [] ch = "8" -> 8 [] ch = "9" -> 9

isdigit(ch) == ch \in Digits

(***************************************************************************)
(* The zlib stream.  A file is [data, err]: data is the decoded content,   *)
(* err is the offset at which the stream layer starts reporting a read or  *)
(* decompression error (NoErr(data), an offset no read is made at, when it *)
(* never does).  A cursor is [pos, past]: pos bytes have been consumed,    *)
(* past is the end-of-file indicator that gzeof reports.                   *)
(***************************************************************************)
NoErr(data) == Len(data) + 1

\* gzgetc: the next byte; EOF with the indicator set when the data is
\* exhausted; EOF with the indicator untouched when the read fails.
gzgetc(f, st) ==
    IF st.pos >= f.err
    THEN [ch |-> EOF, st |-> st]
    ELSE IF st.pos >= Len(f.data)
         THEN [ch |-> EOF, st |-> [st EXCEPT !.past = TRUE]]
         ELSE [ch |-> f.data[st.pos + 1], st |-> [st EXCEPT !.pos = st.pos + 1]]

\* gzungetc of the byte just read: it is read again next; the indicator is cleared.
gzungetc(st) == [pos |-> st.pos - 1, past |-> FALSE]

gzeof(st) == st.past

tag == <<"[", "h", "h", ":", "m", "m", ":", "s", "s", "]">>

\* line 54: while ((ch = gzgetc(gf)) != EOF && ch != '\r' && ch != '\n');
RECURSIVE SkipLine(_, _)
SkipLine(f, st) ==
    LET g == gzgetc(f, st)
    IN  IF g.ch # EOF /\ g.ch \notin Terminators THEN SkipLine(f, g.st) ELSE g

\* lines 55-57: skip the further terminators, push back the first other byte.
RECURSIVE SkipTerminators(_, _)
SkipTerminators(f, st) ==
    LET g == gzgetc(f, st)
    IN  IF g.ch # EOF /\ g.ch \in Terminators THEN SkipTerminators(f, g.st)
        ELSE IF g.ch # EOF THEN [ch |-> g.ch, st |-> gzungetc(g.st)]
        ELSE g

\* lines 34-52: the template loop from index i on, hour/minute/second so far.
RECURSIVE MatchTag(_, _, _, _, _, _)
MatchTag(f, st, i, hour, minute, second) ==
    IF i > Len(tag)
    THEN [ok |-> TRUE, st |-> st, eof |-> FALSE,
          time |-> (hour * 60 + minute) * 60 + second]
    ELSE LET g == gzgetc(f, st)
         IN  IF g.ch = EOF
             THEN [ok |-> FALSE, st |-> g.st, eof |-> TRUE, time |-> 0]
             ELSE IF tag[i] \in {"h", "m", "s"}
             THEN IF ~isdigit(g.ch)
                  THEN [ok |-> FALSE, st |-> g.st, eof |-> FALSE, time |-> 0]
                  ELSE IF tag[i] = "h"
                       THEN MatchTag(f, g.st, i + 1, hour * 10 + DigitVal(g.ch), minute, second)
                       ELSE IF tag[i] = "m"
                       THEN MatchTag(f, g.st, i + 1, hour, minute * 10 + DigitVal(g.ch), second)
                       ELSE MatchTag(f, g.st, i + 1, hour, minute, second * 10 + DigitVal(g.ch))
             ELSE IF g.ch # tag[i]
                  THEN [ok |-> FALSE, st |-> g.st, eof |-> FALSE, time |-> 0]
                  ELSE MatchTag(f, g.st, i + 1, hour, minute, second)

\* parseLine: ret 0 with the time, the cursor moved to the next line; ret 1 as
\* soon as a byte does not fit the template, the cursor left after that byte.
\* eof tells whether some gzgetc of the invocation returned EOF.
parseLine(f, st) ==
    LET m == MatchTag(f, st, 1, 0, 0, 0)
    IN  IF ~m.ok
        THEN [ret |-> 1, time |-> 0, st |-> m.st, eof |-> m.eof]
        ELSE LET a == SkipLine(f, m.st)
                 b == SkipTerminators(f, a.st)
             IN  [ret |-> 0, time |-> m.time, st |-> b.st,
                  eof |-> (a.ch = EOF \/ b.ch = EOF)]


(***************************************************************************)
(* parseFile as a whole (lines 66-83): ret, the duration written to *time  *)
(* (0 when nothing is written), whether the record was printed, the        *)
(* streams left open, and hangs: the call never returns.  parseLine is a   *)
(* function of the file and the cursor, so a loop that goes round with the *)
(* cursor it started the round with goes round for ever.                   *)
(***************************************************************************)
Hangs == [ret |-> 1, time |-> 0, printed |-> FALSE, open |-> 1, hangs |-> TRUE]

\* lines 76-78: while (gzeof(gf) == 0) if (parseLine(gf, &tmp) == 0) end = tmp;
RECURSIVE RestLoop(_, _, _, _)
RestLoop(f, st, first, last) ==
    IF gzeof(st)
    THEN [ret |-> 0, time |-> last - first, printed |-> TRUE, open |-> 0,
          hangs |-> FALSE]
    ELSE LET r == parseLine(f, st)
         IN  IF r.st = st THEN Hangs
             ELSE RestLoop(f, r.st, first, IF r.ret = 0 THEN r.time ELSE last)

\* lines 72-75: while (parseLine(gf, &start) == 1) if (gzeof(gf) == 1) return 2;
RECURSIVE FirstLoop(_, _)
FirstLoop(f, st) ==
    LET r == parseLine(f, st)
    IN  IF r.ret = 1
        THEN IF gzeof(r.st)
             THEN [ret |-> 2, time |-> 0, printed |-> FALSE, open |-> 1,
                   hangs |-> FALSE]
             ELSE IF r.st = st THEN Hangs
             ELSE FirstLoop(f, r.st)
        ELSE RestLoop(f, r.st, r.time, r.time)

parseFile(f) ==
    IF ~f.openable
    THEN [ret |-> 1, time |-> 0, printed |-> FALSE, open |-> 0, hangs |-> FALSE]
    ELSE FirstLoop(f, [pos |-> 0, past |-> FALSE])

(***************************************************************************)
(* Inputs of FileSpec: up to MaxLines lines out of LineSet, each followed  *)
(* by LF or by CR LF (the last one possibly by nothing), read with or      *)
(* without an error of the stream layer at some offset.                    *)
(***************************************************************************)
MaxLines == 3

Stamp(a, b, c, d, e, g) == <<"[", a, b, ":", c, d, ":", e, g, "]">>

LineSet ==
    { Stamp("0", "0", "0", "0", "1", "0"),                    \* [00:00:10]
      Stamp("0", "0", "0", "1", "0", "0") \o <<" ", "b">>,    \* [00:01:00] b
      <<"x">> \o Stamp("0", "0", "0", "0", "0", "5"),         \* x[00:00:05]
      <<"b", "a", "d">>,                                      \* bad
      <<"[", "0", "0", ":", "0">>,                            \* [00:0
      <<>> }                                                  \* blank line

RECURSIVE Concat(_, _, _)
Concat(lines, term, final) ==
    IF lines = <<>> THEN <<>>
    ELSE IF Len(lines) = 1
         THEN IF final THEN Head(lines) \o term ELSE Head(lines)
         ELSE Head(lines) \o term \o Concat(Tail(lines), term, final)

LineSeqs == UNION { [1..n -> LineSet] : n \in 0..MaxLines }

Contents ==
    { Concat(ls, term, final) :
        ls \in LineSeqs, term \in {<<LF>>, <<CR, LF>>}, final \in BOOLEAN }

(***************************************************************************)
(* File names.  A name is a string; Chars gives its bytes, which is what   *)
(* isLogGzFile reads.  NUL ends every C string.                            *)
(***************************************************************************)
NUL == "NUL"
G1 == "2023-10-05-1.log.gz"
G2 == "2023-10-05-2.log.gz"
OLD == "2023-10-05-1.log"
LATEST == "latest.log"

DateChars(k) == <<"2", "0", "2", "3", "-", "1", "0", "-", "0", "5", "-", k>>

Chars(name) ==
    CASE name = G1 -> DateChars("1") \o <<".", "l", "o", "g", ".", "g", "z">>
      [] name = G2 -> DateChars("2") \o <<".", "l", "o", "g", ".", "g", "z">>
      [] name = OLD -> DateChars("1") \o <<".", "l", "o", "g">>
      [] name = LATEST -> <<"l", "a", "t", "e", "s", "t", ".", "l", "o", "g">>
      [] name = "." -> <<".">>
      [] name = ".." -> <<".", ".">>
      [] name = "logs" -> <<"l", "o", "g", "s">>
      [] name = "versions" -> <<"v", "e", "r", "s", "i", "o", "n", "s">>
      [] name = "v1" -> <<"v", "1">>
      [] name = "v2" -> <<"v", "2">>
      [] name = "d" -> <<"d">>
      [] name = "a.log" -> <<"a", ".", "l", "o", "g">>
      [] name = ".minecraft" -> <<".", "m", "i", "n", "e", "c", "r", "a", "f", "t">>

\* s[i] of a C string, counting from 1: the byte, or the NUL that ends it.
At(s, i) == IF i <= Len(s) THEN s[i] ELSE NUL

format == <<"n", "n", "n", "n", "-", "n", "n", "-", "n", "n", "-", "n",
            ".", "l", "o", "g", ".", "g", "z">>

\* lines 93-108: the loop of isLogGzFile from index i on.
RECURSIVE LogGzFrom(_, _)
LogGzFrom(name, i) ==
    IF At(format, i) = "n"
    THEN IF ~isdigit(At(name, i)) THEN 0 ELSE LogGzFrom(name, i + 1)
    ELSE IF At(name, i) # At(format, i) THEN 0
         ELSE IF At(format, i) = NUL THEN 1
         ELSE LogGzFrom(name, i + 1)

Names == {G1, G2, OLD, LATEST, ".", "..", "logs", "versions", "v1", "v2", "d",
          "a.log", ".minecraft"}

\* isLogGzFile on each name, once and for all.
LogGzOf == [n \in Names |-> LogGzFrom(Chars(n), 1)]

isLogGzFile(name) == LogGzOf[name]

(***************************************************************************)
(* The file system.  A location is the sequence of names from the          *)
(* directory the tool is started in (<<>>) down to the node.  A node is a  *)
(* directory (x: it can be entered and searched, r: it can be listed), a   *)
(* regular file (r: it can be opened; content: what it holds) or something *)
(* else.  Every regular file here is read without error.                   *)
(***************************************************************************)
StartDir == <<>>

DirNode(x, r) == [kind |-> "dir", x |-> x, r |-> r, content |-> "-"]
RegNode(r, c) == [kind |-> "reg", x |-> FALSE, r |-> r, content |-> c]
OtherNode == [kind |-> "other", x |-> FALSE, r |-> FALSE, content |-> "-"]
NoNodes == [l \in {} |-> OtherNode]

ContentIds == {"c50", "c20", "c7", "bad", "corrupt"}

ContentData(c) ==
    CASE c = "c50" -> Stamp("0", "0", "0", "0", "1", "0") \o <<" ", "a", LF>>
                        \o <<"b", "a", "d", LF>>
                        \o Stamp("0", "0", "0", "1", "0", "0") \o <<" ", "b", LF>>
      [] c = "c20" -> Stamp("0", "0", "0", "0", "4", "0") \o <<CR, LF>>
                        \o Stamp("0", "0", "0", "1", "0", "0")
      [] c = "c7"  -> Stamp("0", "0", "0", "0", "0", "3") \o <<LF>>
                        \o Stamp("0", "0", "0", "0", "1", "0") \o <<LF>>
      [] c = "bad" -> <<"b", "a", "d", LF>>
      [] c = "corrupt" -> <<>>

\* A corrupt file is one the stream layer cannot decode from the first byte on.
ContentErr(c) == IF c = "corrupt" THEN 0 ELSE NoErr(ContentData(c))

\* parseFile on each content, once and for all.
ParseResult ==
    [c \in ContentIds |->
        parseFile([data |-> ContentData(c), err |-> ContentErr(c),
                   openable |-> TRUE])]

\* A file slot: "none", "denied" (there, but it cannot be opened) or a content.
FileSlot(loc, o) ==
    IF o = "none" THEN NoNodes
    ELSE IF o = "denied" THEN loc :> RegNode(FALSE, "c50")
    ELSE loc :> RegNode(TRUE, o)

\* A directory slot: "absent", "noenter", "nolist" or anything else (usable),
\* with the nodes below it.
DirSlot(loc, o, below) ==
    IF o = "absent" THEN NoNodes
    ELSE (loc :> DirNode(o # "noenter", o # "nolist")) @@ below

\* The tree of configuration c:
\*   a.log                       a file given on the command line
\*   d/                          a logs directory: G1, G2 or OLD, latest.log
\*   .minecraft/logs/            G1 (50 s) and latest.log (20 s)
\*   .minecraft/versions/v1/logs latest.log (7 s)
\*   .minecraft/versions/v2/logs latest.log (20 s)
MkFS(c) ==
    LET mc == <<".minecraft">>
        vs == <<".minecraft", "versions">>
        v1 == vs \o <<"v1">>
        v2 == vs \o <<"v2">>
    IN  (StartDir :> DirNode(TRUE, TRUE))
        @@ (IF c.a = "fifo" THEN <<"a.log">> :> OtherNode
            ELSE FileSlot(<<"a.log">>, c.a))
        @@ DirSlot(<<"d">>, c.d,
              FileSlot(<<"d", G1>>, c.g1)
              @@ (IF c.g2 = "old" THEN FileSlot(<<"d", OLD>>, "c7")
                  ELSE FileSlot(<<"d", G2>>, c.g2))
              @@ FileSlot(<<"d", LATEST>>, c.lt))
        @@ DirSlot(mc, "ok",
              DirSlot(mc \o <<"logs">>, c.rl,
                 FileSlot(mc \o <<"logs", G1>>, "c50")
                 @@ FileSlot(mc \o <<"logs", LATEST>>, "c20"))
              @@ DirSlot(vs, c.vs,
                   DirSlot(v1, IF c.v1 = "noenter" THEN "noenter" ELSE "ok",
                      DirSlot(v1 \o <<"logs">>,
                         IF c.v1 = "nologs" THEN "absent" ELSE c.v1,
                         FileSlot(v1 \o <<"logs", LATEST>>,
                                  IF c.v1 = "empty" THEN "none" ELSE "c7")))
                   @@ DirSlot(v2, "ok",
                        DirSlot(v2 \o <<"logs">>, c.v2,
                           FileSlot(v2 \o <<"logs", LATEST>>, "c20")))))

\* The configurations: one part of the tree varies at a time around BaseCfg.
BaseCfg ==
    [a |-> "c50", d |-> "ok", g1 |-> "none", g2 |-> "none", lt |-> "none",
     rl |-> "ok", vs |-> "ok", v1 |-> "ok", v2 |-> "ok"]

\* d and what it holds vary.
ConfigsD ==
    { [BaseCfg EXCEPT !.g1 = x, !.g2 = y, !.lt = z] :
        x \in {"none", "denied", "c50", "bad", "corrupt"},
        y \in {"none", "c7", "old"},
        z \in {"none", "c20", "bad"} }
    \cup { [BaseCfg EXCEPT !.d = x] : x \in {"absent", "noenter", "nolist"} }

\* a.log varies.
ConfigsA ==
    { [BaseCfg EXCEPT !.a = x] : x \in {"none", "denied", "bad", "corrupt", "fifo"} }

\* .minecraft varies.
ConfigsM ==
    { [BaseCfg EXCEPT !.rl = x, !.v1 = y, !.v2 = z] :
        x \in {"absent", "nolist", "ok"},
        y \in {"noenter", "nologs", "nolist", "empty", "ok"},
        z \in {"nolist", "ok"} }
    \cup { [BaseCfg EXCEPT !.rl = x, !.vs = y] :
             x \in {"absent", "nolist", "ok"}, y \in {"absent", "nolist"} }

Configs == ConfigsD \cup ConfigsA \cup ConfigsM

FSOf == [c \in Configs |-> MkFS(c)]

(***************************************************************************)
(* Paths.  A path is [null, abs, at]: absolute (at is a location) or       *)
(* relative to the working directory (at is a sequence of names); NULL is  *)
(* the null pointer.                                                       *)
(***************************************************************************)
NULL == [null |-> TRUE, abs |-> FALSE, at |-> <<>>]
Rel(names) == [null |-> FALSE, abs |-> FALSE, at |-> names]
Abs(loc) == [null |-> FALSE, abs |-> TRUE, at |-> loc]

Parent(loc) == IF loc = <<>> THEN loc ELSE SubSeq(loc, 1, Len(loc) - 1)

RECURSIVE Walk(_, _)
Walk(loc, names) ==
    IF names = <<>> THEN loc
    ELSE LET n == Head(names)
         IN  Walk(IF n = ".." THEN Parent(loc)
                  ELSE IF n = "." THEN loc
                  ELSE Append(loc, n), Tail(names))

\* Where path leads from the working directory cwd.
Resolve(cwd, path) == IF path.abs THEN path.at ELSE Walk(cwd, path.at)

\* basename of a location (the start directory has some other name).
basename(loc) == IF loc = <<>> THEN "home" ELSE loc[Len(loc)]

\* Every directory above loc exists and can be searched.
Searchable(F, loc) ==
    \A k \in 0..(Len(loc) - 1) :
        LET up == SubSeq(loc, 1, k)
        IN  up \in DOMAIN F /\ F[up].kind = "dir" /\ F[up].x

\* stat: the kind of the node, "fail" when it cannot be reached.
stat(F, loc) ==
    IF loc \in DOMAIN F /\ Searchable(F, loc) THEN F[loc].kind ELSE "fail"

\* chdir succeeds on a directory that can be reached and entered.
CanChdir(F, loc) == stat(F, loc) = "dir" /\ F[loc].x

\* opendir(".") in the directory loc the process is in.
CanOpendir(F, loc) == F[loc].r

\* What readdir returns, in some order: the entries, "." and "..".
Entries(F, loc) ==
    { l[Len(l)] : l \in { k \in DOMAIN F :
                            Len(k) = Len(loc) + 1 /\ SubSeq(k, 1, Len(loc)) = loc } }
    \cup {".", ".."}

\* parseFile on the file at loc (gzopen fails on what is absent or denied).
ParseAt(F, loc) ==
    IF stat(F, loc) = "reg" /\ F[loc].r
    THEN ParseResult[F[loc].content]
    ELSE parseFile([data |-> <<>>, err |-> NoErr(<<>>), openable |-> FALSE])

\* parseDirectory counting every file it tried, whatever parseFile returned.
AddParsedWhateverReturned(acc, r) ==
    [acc EXCEPT !.sum = @ + r.time, !.file = @ + 1]

\* lines 143-144, 146-147: if (parseFile(..., &tmp) == 0) sum += tmp, file++;
AddParsed(acc, r) ==
    IF r.ret = 0 THEN [acc EXCEPT !.sum = @ + r.time, !.file = @ + 1] ELSE acc

\* lines 167-168, 181-182, 303-304: if (ret != -1) sum += tmp, file += ret;
AddResult(acc, r, t) ==
    IF r # -1 THEN [acc EXCEPT !.sum = @ + t, !.file = @ + r] ELSE acc

VARIABLES
    input,      \* parseFile: the file behind path, [data, err, openable]
    gf,         \* parseFile: the cursor of the stream gzopen returned
    fpc,        \* parseFile: "open", "first" (line 72), "rest" (line 76), "ret"
    start,      \* parseFile: time_t start
    end,        \* parseFile: time_t end
    fret,       \* parseFile: the value returned
    ftime,      \* parseFile: *time, "unset" until line 80 writes it
    printed,    \* parseFile: whether line 81 printed the record
    nopen,      \* streams gzopen returned and gzclose has not closed
    last,       \* the last parseLine invocation: [called, from, ret, eof]
    cfg,        \* the configuration of the file system (FSOf[cfg] is the tree)
    jobs,       \* the argument lists the tool is run on, one run after the other
    run,        \* the index in jobs of the current run
    results,    \* the totals [file, sum] the finished runs printed
    pc,         \* where the current run is
    cwd,        \* the working directory of the process (a location)
    origin,     \* main: char *origin
    i,          \* main: the index of the argument in hand
    sum,        \* main: time_t sum
    file,       \* main: int file
    ret,        \* the value the last returned call returned
    tmp,        \* the *time the last returned call wrote
    dele,       \* autoParse: the delegate called, "dotmc" or "dir"
    m,          \* the frame of parseDotMinecraftDirectory
    d           \* the frame of parseDirectory

fvars == <<input, gf, fpc, start, end, fret, ftime, printed, last>>
dvars == <<cfg, jobs, run, results, pc, cwd, origin, i, sum, file, ret, tmp, dele, m, d>>
vars == <<fvars, nopen, dvars>>

NoCall == [called |-> FALSE, from |-> 0, ret |-> 0, eof |-> FALSE]

FileRest ==
    /\ gf = [pos |-> 0, past |-> FALSE]
    /\ fpc = "open"
    /\ start = 0
    /\ end = 0
    /\ fret = 0
    /\ ftime = "unset"
    /\ printed = FALSE
    /\ last = NoCall

\* line 68-70: gzopen; NULL returns 1.
GzOpen ==
    /\ fpc = "open"
    /\ IF input.openable
       THEN /\ gf' = [pos |-> 0, past |-> FALSE]
            /\ nopen' = nopen + 1
            /\ fpc' = "first"
            /\ fret' = fret
       ELSE /\ fret' = 1
            /\ fpc' = "ret"
            /\ UNCHANGED <<gf, nopen>>
    /\ UNCHANGED <<input, start, end, ftime, printed, last, dvars>>

\* lines 72-75: one iteration of the first loop; on success end = start.
ScanFirst ==
    /\ fpc = "first"
    /\ LET r == parseLine(input, gf)
       IN  /\ gf' = r.st
           /\ last' = [called |-> TRUE, from |-> gf.pos, ret |-> r.ret, eof |-> r.eof]
           /\ IF r.ret = 1
              THEN /\ IF gzeof(r.st)
                      THEN fret' = 2 /\ fpc' = "ret"
                      ELSE UNCHANGED <<fret, fpc>>
                   /\ UNCHANGED <<start, end>>
              ELSE /\ start' = r.time
                   /\ end' = r.time
                   /\ fpc' = "rest"
                   /\ fret' = fret
    /\ UNCHANGED <<input, ftime, printed, nopen, dvars>>

\* lines 76-78: one iteration of the second loop.
ScanRest ==
    /\ fpc = "rest"
    /\ ~gzeof(gf)
    /\ LET r == parseLine(input, gf)
       IN  /\ gf' = r.st
           /\ last' = [called |-> TRUE, from |-> gf.pos, ret |-> r.ret, eof |-> r.eof]
           /\ end' = IF r.ret = 0 THEN r.time ELSE end
    /\ UNCHANGED <<input, fpc, start, fret, ftime, printed, nopen, dvars>>

\* lines 79-82: gzclose, *time = end - start, the record, return 0.
Finish ==
    /\ fpc = "rest"
    /\ gzeof(gf)
    /\ nopen' = nopen - 1
    /\ ftime' = end - start
    /\ printed' = TRUE
    /\ fret' = 0
    /\ fpc' = "ret"
    /\ UNCHANGED <<input, gf, start, end, last, dvars>>

\* The locals of parseDirectory during the scan: sum and file, the names
\* parseFile was called on and how often, the streams those calls left open.
\* hung: one of the calls never returned.
NoScan == [sum |-> 0, file |-> 0, tried |-> {}, calls |-> 0, open |-> 0,
           hung |-> FALSE]

\* if (parseFile(name, &tmp) == 0) sum += tmp, file++;  in directory dir.
ScanFile(T, dir, name, acc) ==
    IF acc.hung THEN acc
    ELSE LET r == ParseAt(T, Append(dir, name))
         IN  IF r.hangs
             THEN [acc EXCEPT !.tried = @ \cup {name}, !.calls = @ + 1,
                              !.open = @ + r.open, !.hung = TRUE]
             ELSE AddParsed([acc EXCEPT !.tried = @ \cup {name}, !.calls = @ + 1,
                                        !.open = @ + r.open], r)

\* lines 140-145: the readdir loop over the entries in the order given.
RECURSIVE ScanEntries(_, _, _, _)
ScanEntries(T, dir, order, acc) ==
    IF order = <<>> THEN acc
    ELSE ScanEntries(T, dir, Tail(order),
                     IF isLogGzFile(Head(order)) = 1
                     THEN ScanFile(T, dir, Head(order), acc)
                     ELSE acc)

\* The orders in which readdir may return the entries S.
RECURSIVE Orders(_)
Orders(S) ==
    IF S = {} THEN {<<>>}
    ELSE UNION { { <<x>> \o o : o \in Orders(S \ {x}) } : x \in S }

\* The listings of the directories of the trees, and their orders, once and for all.
Listings ==
    UNION { { Entries(FSOf[c], l) :
                l \in { k \in DOMAIN FSOf[c] : FSOf[c][k].kind = "dir" } } :
            c \in Configs }

OrdersOf == [S \in Listings |-> Orders(S)]

(***************************************************************************)
(* The directory level.  F is the tree, argv the arguments of the run.     *)
(***************************************************************************)
F == FSOf[cfg]
argv == jobs[run]

NoM == [root |-> <<>>, sum |-> 0, file |-> 0, rem |-> {}]
NoD == [path |-> NULL, origin |-> NULL, caller |-> "none", cwd0 |-> <<>>,
        entered |-> FALSE, dir |-> <<>>, listed |-> FALSE,
        sum |-> 0, file |-> 0, tried |-> {}, calls |-> 0]

\* The frame of a call parseDirectory(path, &tmp, org) made at working directory at.
CallD(path, org, caller, at) ==
    [NoD EXCEPT !.path = path, !.origin = org, !.caller = caller, !.cwd0 = at]

\* Where parseDirectory returns to.
ReturnPc(caller) ==
    CASE caller = "auto" -> "a_ret"
      [] caller = "m_logs" -> "m_logs_ret"
      [] caller = "m_ver" -> "m_ver_ret"

\* chdir_s (lines 114-121): the working directory and the place to go on at,
\* or exit(1) when chdir fails.
chdir_s(loc, next) ==
    IF CanChdir(F, loc) THEN [cwd |-> loc, pc |-> next]
    ELSE [cwd |-> cwd, pc |-> "exit"]

\* main, lines 292-301: no argument prints the help; else origin = getcwd_s().
MainStart ==
    /\ pc = "start"
    /\ IF argv = <<>>
       THEN pc' = "done" /\ UNCHANGED <<origin, i>>
       ELSE origin' = Abs(cwd) /\ i' = 1 /\ pc' = "main_loop"
    /\ UNCHANGED <<fvars, nopen, cfg, jobs, run, results, cwd, sum, file, ret,
                   tmp, dele, m, d>>

\* autoParse(argv[i], &tmp, origin), lines 215-238, 250-252, 268-286: stat and
\* dispatch; a regular file is parsed here, a directory is entered and handed
\* to a delegate.
AutoParse ==
    /\ pc = "main_loop"
    /\ LET loc == Resolve(cwd, Rel(argv[i]))
           st == stat(F, loc)
       IN  IF st = "fail"
           THEN ret' = -1 /\ pc' = "main_ret"
                /\ UNCHANGED <<cwd, tmp, dele, m, d, nopen>>
           ELSE IF st = "dir"
           THEN IF ~CanChdir(F, loc)
                THEN ret' = -1 /\ pc' = "main_ret"
                     /\ UNCHANGED <<cwd, tmp, dele, m, d, nopen>>
                ELSE /\ cwd' = loc
                     /\ IF basename(loc) = ".minecraft"
                        THEN dele' = "dotmc" /\ pc' = "m_enter" /\ d' = d
                        ELSE dele' = "dir" /\ pc' = "d_enter"
                             /\ d' = CallD(NULL, NULL, "auto", loc)
                     /\ UNCHANGED <<ret, tmp, m, nopen>>
           ELSE IF st = "reg"
           THEN LET r == ParseAt(F, loc)
                IN  /\ nopen' = nopen + r.open
                    /\ IF r.hangs
                       THEN pc' = "hang" /\ UNCHANGED <<ret, tmp>>
                       ELSE /\ IF r.ret \in {1, 2}
                               THEN ret' = -1 /\ tmp' = tmp
                               ELSE ret' = 1 /\ tmp' = r.time
                            /\ pc' = "main_ret"
                    /\ UNCHANGED <<cwd, dele, m, d>>
           ELSE ret' = -1 /\ pc' = "main_ret"
                /\ UNCHANGED <<cwd, tmp, dele, m, d, nopen>>
    /\ UNCHANGED <<fvars, cfg, jobs, run, results, origin, i, sum, file>>

\* autoParse, lines 238-267, 287-288: the switch on what the delegate
\* returned; -1 and 0 return -1 at once, otherwise chdir_s(origin).
AutoReturn ==
    /\ pc = "a_ret"
    /\ IF ret \in {-1, 0}
       THEN ret' = -1 /\ pc' = "main_ret" /\ cwd' = cwd
       ELSE LET c == chdir_s(Resolve(cwd, origin), "main_ret")
            IN  cwd' = c.cwd /\ pc' = c.pc /\ ret' = ret
    /\ UNCHANGED <<fvars, nopen, cfg, jobs, run, results, origin, i, sum, file,
                   tmp, dele, m, d>>

\* main, lines 302-308: if (ret != -1) sum += tmp, file += ret; the next
\* argument, or the totals.
MainAccumulate ==
    /\ pc = "main_ret"
    /\ LET acc == AddResult([sum |-> sum, file |-> file], ret, tmp)
       IN  sum' = acc.sum /\ file' = acc.file
    /\ i' = i + 1
    /\ pc' = IF i + 1 > Len(argv) THEN "done" ELSE "main_loop"
    /\ UNCHANGED <<fvars, nopen, cfg, jobs, run, results, cwd, origin, ret, tmp,
                   dele, m, d>>

\* parseDotMinecraftDirectory(NULL, &tmp, NULL), lines 161-167: no chdir for a
\* NULL path; then the call parseDirectory("logs", &tmp, "..").
DotMinecraftEnter ==
    /\ pc = "m_enter"
    /\ m' = [NoM EXCEPT !.root = cwd]
    /\ d' = CallD(Rel(<<"logs">>), Rel(<<"..">>), "m_logs", cwd)
    /\ pc' = "d_enter"
    /\ UNCHANGED <<fvars, nopen, cfg, jobs, run, results, cwd, origin, i, sum,
                   file, ret, tmp, dele>>

\* lines 167-173 (and 186-192 when versions cannot be used): the result of
\* the root's logs, chdir("versions"), opendir(".").
DotMinecraftVersions ==
    /\ pc = "m_logs_ret"
    /\ LET acc == AddResult([sum |-> m.sum, file |-> m.file], ret, tmp)
           vs == Resolve(cwd, Rel(<<"versions">>))
       IN  IF ~CanChdir(F, vs)
           THEN \* goto VERSIONS_END
                /\ tmp' = acc.sum /\ ret' = acc.file
                /\ pc' = "a_ret" /\ cwd' = cwd
                /\ m' = [m EXCEPT !.sum = acc.sum, !.file = acc.file]
           ELSE IF ~CanOpendir(F, vs)
           THEN \* goto DIR_END
                LET c == chdir_s(Resolve(vs, Rel(<<"..">>)), "a_ret")
                IN  /\ cwd' = c.cwd /\ pc' = c.pc
                    /\ tmp' = acc.sum /\ ret' = acc.file
                    /\ m' = [m EXCEPT !.sum = acc.sum, !.file = acc.file]
           ELSE /\ cwd' = vs
                /\ m' = [m EXCEPT !.sum = acc.sum, !.file = acc.file,
                                  !.rem = Entries(F, vs)]
                /\ pc' = "m_loop"
                /\ UNCHANGED <<ret, tmp>>
    /\ UNCHANGED <<fvars, nopen, cfg, jobs, run, results, origin, i, sum, file,
                   dele, d>>

\* lines 175-181: one entry of versions; "." and ".." and what cannot be
\* entered are passed over, else parseDirectory("logs", &tmp, "..").
DotMinecraftEntry ==
    /\ pc = "m_loop"
    /\ \E e \in m.rem :
          /\ m' = [m EXCEPT !.rem = m.rem \ {e}]
          /\ LET loc == Resolve(cwd, Rel(<<e>>))
             IN  IF e = "." \/ e = ".." \/ ~CanChdir(F, loc)
                 THEN UNCHANGED <<cwd, pc, d>>
                 ELSE /\ cwd' = loc
                      /\ d' = CallD(Rel(<<"logs">>), Rel(<<"..">>), "m_ver", loc)
                      /\ pc' = "d_enter"
    /\ UNCHANGED <<fvars, nopen, cfg, jobs, run, results, origin, i, sum, file,
                   ret, tmp, dele>>

\* lines 181-183: the result of one version, chdir_s("..").
DotMinecraftEntryReturn ==
    /\ pc = "m_ver_ret"
    /\ LET acc == AddResult([sum |-> m.sum, file |-> m.file], ret, tmp)
           c == chdir_s(Resolve(cwd, Rel(<<"..">>)), "m_loop")
       IN  /\ m' = [m EXCEPT !.sum = acc.sum, !.file = acc.file]
           /\ cwd' = c.cwd /\ pc' = c.pc
    /\ UNCHANGED <<fvars, nopen, cfg, jobs, run, results, origin, i, sum, file,
                   ret, tmp, dele, d>>

\* lines 175, 185-192: readdir returns NULL; closedir, chdir_s(".."),
\* *time = sum, return file (origin is NULL).
DotMinecraftReturn ==
    /\ pc = "m_loop"
    /\ m.rem = {}
    /\ LET c == chdir_s(Resolve(cwd, Rel(<<"..">>)), "a_ret")
       IN  cwd' = c.cwd /\ pc' = c.pc
    /\ tmp' = m.sum
    /\ ret' = m.file
    /\ UNCHANGED <<fvars, nopen, cfg, jobs, run, results, origin, i, sum, file,
                   dele, m, d>>

\* parseDirectory (lines 130-153) as a whole: chdir(path) unless path is NULL
\* and opendir("."), either failure returning -1; the entries in the order
\* readdir happens to return them; latest.log; *time = sum; chdir_s(origin)
\* unless origin is NULL; return file.  A parseFile that never returns leaves
\* the process in the loop for ever ("hang").
ParseDirectory ==
    /\ pc = "d_enter"
    /\ LET to == IF d.path = NULL THEN cwd ELSE Resolve(cwd, d.path)
       IN  IF d.path # NULL /\ ~CanChdir(F, to)
           THEN /\ ret' = -1 /\ pc' = ReturnPc(d.caller)
                /\ UNCHANGED <<cwd, d, tmp, nopen>>
           ELSE IF ~CanOpendir(F, to)
           THEN /\ ret' = -1 /\ pc' = ReturnPc(d.caller)
                /\ cwd' = to
                /\ d' = [d EXCEPT !.entered = (d.path # NULL), !.dir = to]
                /\ UNCHANGED <<tmp, nopen>>
           ELSE \E order \in OrdersOf[Entries(F, to)] :
                \E fin \in {ScanFile(F, to, LATEST, ScanEntries(F, to, order, NoScan))} :
                   LET c == IF d.origin # NULL
                            THEN chdir_s(Resolve(to, d.origin), ReturnPc(d.caller))
                            ELSE [cwd |-> to, pc |-> ReturnPc(d.caller)]
                   IN  /\ d' = [d EXCEPT !.entered = (d.path # NULL), !.dir = to,
                                         !.listed = TRUE, !.sum = fin.sum,
                                         !.file = fin.file, !.tried = fin.tried,
                                         !.calls = fin.calls]
                       /\ nopen' = nopen + fin.open
                       /\ IF fin.hung
                          THEN pc' = "hang" /\ cwd' = to /\ UNCHANGED <<tmp, ret>>
                          ELSE /\ tmp' = fin.sum
                               /\ ret' = fin.file
                               /\ cwd' = c.cwd /\ pc' = c.pc
    /\ UNCHANGED <<fvars, cfg, jobs, run, results, origin, i, sum, file, dele, m>>

\* The state a process starts in.
ProcessStart ==
    /\ pc = "start"
    /\ cwd = StartDir
    /\ origin = NULL
    /\ i = 0
    /\ sum = 0
    /\ file = 0
    /\ ret = 0
    /\ tmp = 0
    /\ dele = "none"
    /\ m = NoM
    /\ d = NoD
    /\ nopen = 0

\* main returned (lines 307-309): the totals are printed, the process ends and
\* the tool is started again, in the same directory, on the next argument list.
NextRun ==
    /\ pc = "done"
    /\ run < Len(jobs)
    /\ results' = Append(results, [file |-> file, sum |-> sum])
    /\ run' = run + 1
    /\ pc' = "start"
    /\ cwd' = StartDir
    /\ origin' = NULL
    /\ i' = 0
    /\ sum' = 0
    /\ file' = 0
    /\ ret' = 0
    /\ tmp' = 0
    /\ dele' = "none"
    /\ m' = NoM
    /\ d' = NoD
    /\ nopen' = 0
    /\ UNCHANGED <<fvars, cfg, jobs>>

(***************************************************************************)
(* The runs.  Spec runs the tool once, on up to MaxArgs paths.  PairSpec   *)
(* runs it on two paths A and B, then on B and A, on A alone and on B      *)
(* alone, each time from the same directory on the same tree.  Only the    *)
(* parts of the tree that some argument leads to vary.                     *)
(***************************************************************************)
MaxArgs == 2

ArgPaths == {<<"d">>, <<".minecraft">>, <<"a.log">>}

ArgLists == UNION { [1..n -> ArgPaths] : n \in 0..MaxArgs }

Range(s) == { s[k] : k \in 1..Len(s) }

ConfigsFor(args) ==
    {BaseCfg}
    \cup (IF <<"d">> \in Range(args) THEN ConfigsD ELSE {})
    \cup (IF <<"a.log">> \in Range(args) THEN ConfigsA ELSE {})
    \cup (IF <<".minecraft">> \in Range(args) THEN ConfigsM ELSE {})

FileIdle ==
    /\ input = [data |-> <<>>, err |-> NoErr(<<>>), openable |-> FALSE]
    /\ FileRest

DirIdle ==
    /\ cfg = BaseCfg
    /\ jobs = <<<<>>>>
    /\ run = 1
    /\ results = <<>>
    /\ ProcessStart

Init ==
    /\ \E args \in ArgLists :
          /\ jobs = <<args>>
          /\ cfg \in ConfigsFor(args)
    /\ run = 1
    /\ results = <<>>
    /\ ProcessStart
    /\ FileIdle

Next ==
    \/ MainStart
    \/ AutoParse
    \/ AutoReturn
    \/ MainAccumulate
    \/ DotMinecraftEnter
    \/ DotMinecraftVersions
    \/ DotMinecraftEntry
    \/ DotMinecraftEntryReturn
    \/ DotMinecraftReturn
    \/ ParseDirectory

Spec == Init /\ [][Next]_vars

PairInit ==
    /\ \E A \in ArgPaths, B \in ArgPaths :
          /\ jobs = << <<A, B>>, <<B, A>>, <<A>>, <<B>> >>
          /\ cfg \in ConfigsFor(<<A, B>>)
    /\ run = 1
    /\ results = <<>>
    /\ ProcessStart
    /\ FileIdle

PairNext == Next \/ NextRun

PairSpec == PairInit /\ [][PairNext]_vars

FileInit ==
    /\ \/ \E data \in Contents :
             \E err \in {NoErr(data)} \cup (0..Len(data)) :
                input = [data |-> data, err |-> err, openable |-> TRUE]
       \/ input = [data |-> <<>>, err |-> NoErr(<<>>), openable |-> FALSE]
    /\ FileRest
    /\ DirIdle

FileNext == GzOpen \/ ScanFirst \/ ScanRest \/ Finish

FileSpec == FileInit /\ [][FileNext]_vars

(***************************************************************************)
(* What the claims about parseLine and parseFile speak of: the lines of    *)
(* the content and the ones that begin with the template [dd:dd:dd].       *)
(***************************************************************************)
\* Offset p is the start of a line: the start of the content, or just after a terminator.
AtLineStart(data, p) == p = 0 \/ data[p] \in Terminators

\* The line that starts at offset p begins with the template.
ValidAt(data, p) ==
    /\ AtLineStart(data, p)
    /\ p + Len(tag) <= Len(data)
    /\ \A k \in 1..Len(tag) :
          IF tag[k] \in {"h", "m", "s"} THEN data[p + k] \in Digits
          ELSE data[p + k] = tag[k]

ValidStarts(data) == { p \in 0..Len(data) : ValidAt(data, p) }

\* Seconds since midnight written at the start of the valid line at offset p.
StampTime(data, p) ==
    LET two(k) == DigitVal(data[p + k]) * 10 + DigitVal(data[p + k + 1])
    IN  two(2) * 3600 + two(5) * 60 + two(8)

Least(S) == CHOOSE x \in S : \A y \in S : x <= y
Greatest(S) == CHOOSE x \in S : \A y \in S : x >= y

\* C4: a file with at least one valid line yields Parsed with duration =
\* (timestamp of the last valid line) - (timestamp of the first valid line),
\* whatever malformed lines stand before, between and after them.
C4_DurationIsLastMinusFirstValid ==
    (fpc = "ret" /\ input.openable /\ ValidStarts(input.data) # {})
        => /\ fret = 0
           /\ ftime = StampTime(input.data, Greatest(ValidStarts(input.data)))
                        - StampTime(input.data, Least(ValidStarts(input.data)))

\* C5: a file that opens and has no valid line yields FormatFailure (2) with
\* *time not written and no record printed; Parsed (0) only if some line of
\* the file begins with the template.
C5_NoValidLineIsFormatFailure ==
    /\ (fpc = "ret" /\ input.openable /\ ValidStarts(input.data) = {})
          => (fret = 2 /\ ftime = "unset" /\ ~printed)
    /\ (fpc = "ret" /\ input.openable /\ fret = 0)
          => ValidStarts(input.data) # {}

\* C6: whenever the open succeeded, the stream is closed by the time parseFile
\* returns, for the Parsed and for the FormatFailure return.
C6_StreamClosedOnReturn == fpc = "ret" => nopen = 0

\* C7: after every parseLine invocation, successful or failed, that did not end
\* at end-of-stream, the cursor is at the start of a line.
C7_CursorAtLineStartAfterScan ==
    (last.called /\ ~last.eof) => AtLineStart(input.data, gf.pos)

\* C10: parseFile terminates on every stream that opens, because every
\* parseLine invocation either consumes at least one net byte or leaves the
\* end-of-stream indicator set.
C10_EveryScanMakesProgress ==
    last.called => (gf.pos > last.from \/ gzeof(gf))

(***************************************************************************)
(* What the claims about the directories speak of: the names the template  *)
(* nnnn-nn-nn-n.log.gz accepts, the files of a directory that count, the   *)
(* ones of them that yield Parsed, and sums over them.                     *)
(***************************************************************************)
AcceptedName(n) ==
    /\ Len(Chars(n)) = Len(format)
    /\ \A k \in 1..Len(format) :
          IF format[k] = "n" THEN Chars(n)[k] \in Digits
          ELSE Chars(n)[k] = format[k]

Counted(dir) == { n \in Entries(F, dir) : AcceptedName(n) } \cup {LATEST}

ParsedIn(dir) == { n \in Counted(dir) : ParseAt(F, Append(dir, n)).ret = 0 }

RECURSIVE SumFn(_, _)
SumFn(f, S) ==
    IF S = {} THEN 0
    ELSE LET x == CHOOSE y \in S : TRUE
         IN  f[x] + SumFn(f, S \ {x})

TimeIn(dir) ==
    SumFn([n \in ParsedIn(dir) |-> ParseAt(F, Append(dir, n)).time], ParsedIn(dir))

\* autoParse has returned to main, or main is about to call it.
InDriverLoop == pc \in {"main_loop", "main_ret"}

\* parseDirectory("logs", &tmp, "..") has returned to parseDotMinecraftDirectory.
ParseDirectoryReturnedToDotMinecraft == pc \in {"m_logs_ret", "m_ver_ret"}

\* parseDirectory has returned to whoever called it.
ParseDirectoryReturned ==
    ParseDirectoryReturnedToDotMinecraft \/ (pc = "a_ret" /\ dele = "dir")

\* parseDotMinecraftDirectory has returned to autoParse.
DotMinecraftReturned == pc = "a_ret" /\ dele = "dotmc"

\* C1: autoParse called with a non-NULL origin leaves the working directory
\* equal to origin on every return branch, so that in the loop of main the
\* working directory at each argument is the one the program was started in.
C1_AutoParseRestoresOrigin == InDriverLoop => cwd = origin.at

\* C2: parseDirectory called with a non-NULL path and a non-NULL origin: when
\* it has changed into path, on return (a count or -1) the working directory
\* is the one origin designates relative to path; when the change into path
\* fails, the working directory is unchanged.
C2_ParseDirectoryRestoresCwd ==
    ParseDirectoryReturnedToDotMinecraft
        => cwd = IF d.entered THEN Resolve(d.dir, d.origin) ELSE d.cwd0

\* The totals of run k, finished or (the last one) finishing.
Totals(k) == IF k < run THEN results[k] ELSE [file |-> file, sum |-> sum]

\* C3: the totals of a run with arguments A, B are the sums of the totals of a
\* run with A alone and a run with B alone, and are the same for B, A.
C3_TotalsAdditiveAndCommutative ==
    (pc = "done" /\ Len(jobs) = 4 /\ run = 4)
        => /\ Totals(1).file = Totals(3).file + Totals(4).file
           /\ Totals(1).sum = Totals(3).sum + Totals(4).sum
           /\ Totals(2) = Totals(1)

\* C8: for a directory that can be listed, parseDirectory returns the number
\* of files that yield Parsed among the entries whose name is accepted plus
\* latest.log, and the sum of exactly their durations, in every order of
\* enumeration; it calls parseFile on those names only, once each, and
\* returns 0 if and only if none of them yielded Parsed.
C8_DirectoryTotalsAreTheParsedFiles ==
    (ParseDirectoryReturned /\ d.listed)
        => /\ ret = Cardinality(ParsedIn(d.dir))
           /\ tmp = TimeIn(d.dir)
           /\ d.tried = Counted(d.dir)
           /\ d.calls = Cardinality(Counted(d.dir))
           /\ (ret = 0 <=> ParsedIn(d.dir) = {})

\* C8, its case: d holds an accepted name that is not a log (FormatFailure),
\* an accepted name that is one (7 s), a rejected name never parsed, and
\* latest.log (20 s): 2 files, 27 s.
C8_Witness ==
    /\ pc = "a_ret" /\ dele = "dir" /\ d.listed
    /\ cfg.g1 = "bad" /\ cfg.g2 = "c7" /\ cfg.lt = "c20"
    /\ d.tried = {G1, G2, LATEST}
    /\ ret = 2 /\ tmp = 27

\* The logs directories parseDotMinecraftDirectory at root is to add up: the
\* root's, and the one of every directory of versions that can be entered.
LogsDirs(root) ==
    LET vs == Append(root, "versions")
    IN  {Append(root, "logs")}
        \cup (IF CanChdir(F, vs) /\ CanOpendir(F, vs)
              THEN { vs \o <<v, "logs">> :
                       v \in { e \in Entries(F, vs) \ {".", ".."} :
                                 CanChdir(F, Append(vs, e)) } }
              ELSE {})

\* Those of them parseDirectory can work on; the others contribute zero.
UsableLogsDirs(root) ==
    { l \in LogsDirs(root) : CanChdir(F, l) /\ CanOpendir(F, l) }

\* C9: parseDotMinecraftDirectory returns the sum of the parseDirectory
\* results for the root's logs and for the logs of every directory of versions
\* (what is missing or fails contributes zero and changes nothing for the
\* others); at the start of every iteration over versions the working
\* directory is the versions directory, on return it is the root.
C9_InstallationTotalsAndCwd ==
    /\ pc = "m_loop" => cwd = Append(m.root, "versions")
    /\ DotMinecraftReturned
          => /\ cwd = m.root
             /\ ret = SumFn([l \in UsableLogsDirs(m.root) |-> Cardinality(ParsedIn(l))],
                            UsableLogsDirs(m.root))
             /\ tmp = SumFn([l \in UsableLogsDirs(m.root) |-> TimeIn(l)],
                            UsableLogsDirs(m.root))

====
